---- MODULE Spec2Model ----
(***************************************************************************)
(* Presale storefront backend (src/server.js, the handlers registered      *)
(* first: lines 1-517).  The file-backed stores, the price cache, the      *)
(* payment gateway's orders and every request handler's position between   *)
(* two awaits are the state; one action is one handler step from one await *)
(* to the next.                                                            *)
(*                                                                         *)
(* Units.  Money is kept in cents.  A unit price is kept in mills          *)
(* (1/1000 EUR): the JavaScript double is cut to the mill.  A coin amount  *)
(* is kept in half coins, so that a fractional amount (n + 1/2 coins) is   *)
(* a value of the model; unit price * coin amount is then in half mills.   *)
(* A day is the index of the ISO date returned by getISODate.              *)
(*                                                                         *)
(* Routes.  POST /api/purchase, POST /api/paypal/create-order,             *)
(* POST /api/paypal/capture-order, GET /api/purchases and GET /api/stats   *)
(* are actions.  config.json is never written by the server, so a read of  *)
(* it is part of the step that follows it, except where its failure is     *)
(* followed.                                                               *)
(*                                                                         *)
(* Specifications.  Spec: concurrent handlers.  SpecSerial: one request at *)
(* a time.  SpecRoutes: one request at a time, the GET routes included.    *)
(* SpecStorage: one request at a time, reads of the stores can fail.       *)
(* SpecWrites: one request at a time, writes of the stores can fail.       *)
(* SpecPair: two concurrent POST /api/purchase requests on a ledger near   *)
(* the daily cap.  SpecPure: one function called once on drawn arguments.  *)
(***************************************************************************)
EXTENDS Integers, Sequences, FiniteSets, TLC

VARIABLES
    purchases,   \* data/purchases.json: the ledger, a sequence of purchase records
    stats,       \* data/stats.json
    priceCache,  \* data/priceCache.json: {} is [date |-> 0, price |-> 0]
    orders,      \* the payment gateway's orders, by order id
    today,       \* the current ISO date (day index)
    nreq,        \* requests accepted so far
    pc,          \* per handler slot: the await the handler is suspended at
    req,         \* per handler slot: the request body
    loc,         \* per handler slot: the handler's local variables
    resp,        \* per handler slot: the response sent
    committed,   \* history: the savePurchase calls that returned, and their amounts
    call,        \* a function called on its own: its arguments and what it returned
    unreadable   \* the stores whose next read fails (readJsonFile returns null)

vars == <<purchases, stats, priceCache, orders, today, nreq, pc, req, loc, resp, committed, call, unreadable>>

(* ------------------------------ bounds -------------------------------- *)
NumProcs == 2
MaxRequests == 3
MaxDay == 2
MaxOrders == 1

Procs == 1..NumProcs

(* ------------------------- program constants -------------------------- *)
\* defaults.config of initializeData
coinStartPrice == 25
coinEndPrice == 100
fundingGoal == 5500000
minimumPurchaseEur == 5
maximumPurchaseCoins == 500000
presaleEndDays == 30
\* checkDailyLimit
limitEur == 500000

Coins(n) == n * 2
minimumPurchase == minimumPurchaseEur * 2000
maximumPurchase == Coins(maximumPurchaseCoins)
presaleEndDate == 1 + presaleEndDays
limit == limitEur * 100

\* request bodies tried: coin amounts (in half coins) below the minimum
\* purchase, inside the purchase bounds, fractional, above the maximum
CoinAmounts == {Coins(100), Coins(1000), Coins(1000) + 1, Coins(20000000)}

(* ------------------------------ records ------------------------------- *)
ZeroStats == [totalCoinsSold |-> 0, totalRaisedEur |-> 0, totalPurchases |-> 0]

NoPurchase ==
    [id |-> 0, walletAddress |-> FALSE, coinAmount |-> 0, totalPrice |-> 0,
     paymentMethod |-> "none", paypalOrderId |-> 0, timestamp |-> 0, route |-> "none"]

NoReq ==
    [kind |-> "none", id |-> 0, walletAddress |-> FALSE, coinAmount |-> 0,
     paymentMethod |-> "none", paypalOrderId |-> 0]

NoCall == [fn |-> "none", arg |-> <<>>, out |-> 0, done |-> FALSE]

NoLoc ==
    [raised |-> 0, day |-> 0, unitPrice |-> 0, ret |-> "none", coin |-> 0,
     total |-> 0, snap |-> <<>>, snapStats |-> ZeroStats, newP |-> NoPurchase,
     capStatus |-> "none", capPayments |-> FALSE, capCustomId |-> 0,
     config |-> [minimumPurchase |-> 0, maximumPurchase |-> 0, presaleEndDate |-> 0]]

(* --------------------------- pure functions --------------------------- *)
\* variant: the start price is not added
FinalPriceWithoutStart(fundingZiel, coinStartpreis, coinEndpreis, insgesamtVerkauft) ==
    IF fundingZiel > 0
    THEN ((insgesamtVerkauft \div 100) * (coinEndpreis - coinStartpreis)) \div fundingZiel
    ELSE coinStartpreis

\* variant: the price difference is taken the other way round
FinalPriceFalling(fundingZiel, coinStartpreis, coinEndpreis, insgesamtVerkauft) ==
    IF fundingZiel > 0
    THEN (((insgesamtVerkauft \div 100) * (coinStartpreis - coinEndpreis)) \div fundingZiel)
         + coinStartpreis
    ELSE coinStartpreis

\* getCachedPriceOrCalculate, the cache-miss branch
FinalPrice(fundingZiel, coinStartpreis, coinEndpreis, insgesamtVerkauft) ==
    IF fundingZiel > 0
    THEN (((insgesamtVerkauft \div 100) * (coinEndpreis - coinStartpreis)) \div fundingZiel)
         + coinStartpreis
    ELSE coinStartpreis

\* variant: the cached price is never taken
CacheHitNever(cache, day) == FALSE

\* getCachedPriceOrCalculate: cache.date === today (a price stored is a number)
CacheHit(cache, day) == cache.date = day

(* JavaScript numbers are IEEE 754 doubles: 53 significant bits, round to    *)
(* nearest, ties to even.  A natural number of any size is a sequence of     *)
(* bits, least significant first, without leading zeros.                     *)
Mantissa == 53

\* a unit price below is held as a multiple of 2^-ScaleBits
ScaleBits == 64

Max(S) == CHOOSE n \in S : \A m \in S : m <= n

Min(S) == CHOOSE n \in S : \A m \in S : n <= m

Zeros(n) == [i \in 1..n |-> 0]

Bit(x, i) == IF i \in 1..Len(x) THEN x[i] ELSE 0

Trim(x) == SubSeq(x, 1, Max({0} \cup {i \in 1..Len(x) : x[i] = 1}))

\* the four bits of x above bit o, as a number
Nibble(x, o) == Bit(x, o + 1) + 2 * Bit(x, o + 2) + 4 * Bit(x, o + 3) + 8 * Bit(x, o + 4)

Nibbles(x) == [q \in 1..((Len(x) + 3) \div 4) |-> Nibble(x, 4 * (q - 1))]

FromNibbles(h) ==
    Trim([i \in 1..(4 * Len(h)) |->
              (h[((i - 1) \div 4) + 1] \div (2 ^ ((i - 1) % 4))) % 2])

\* a number below 2^31 as bits, and back
RECURSIVE SmallNibbles(_)
SmallNibbles(n) == IF n = 0 THEN <<>> ELSE <<n % 16>> \o SmallNibbles(n \div 16)

Bits(n) == FromNibbles(SmallNibbles(n))

RECURSIVE NibblesValue(_, _)
NibblesValue(h, q) == IF q > Len(h) THEN 0 ELSE h[q] + 16 * NibblesValue(h, q + 1)

Value(x) == NibblesValue(Nibbles(x), 1)

\* x + 1
Increment(x) ==
    LET k == Min({Len(x) + 1} \cup {i \in 1..Len(x) : x[i] = 0})
    IN  [i \in 1..Max({Len(x), k}) |-> IF i < k THEN 0 ELSE IF i = k THEN 1 ELSE x[i]]

\* x + 2^k
PlusPower(x, k) ==
    IF Len(x) <= k THEN x \o Zeros(k - Len(x)) \o <<1>>
    ELSE SubSeq(x, 1, k) \o Increment(SubSeq(x, k + 1, Len(x)))

\* h * k + carry, four bits at a time (k below 2^26)
RECURSIVE NibblesTimes(_, _, _, _)
NibblesTimes(h, q, k, carry) ==
    IF q > Len(h) THEN SmallNibbles(carry)
    ELSE <<(h[q] * k + carry) % 16>> \o NibblesTimes(h, q + 1, k, (h[q] * k + carry) \div 16)

Times(x, k) == FromNibbles(NibblesTimes(Nibbles(x), 1, k, 0))

\* 2^n modulo m
RECURSIVE PowerOfTwoMod(_, _)
PowerOfTwoMod(n, m) ==
    IF n = 0 THEN 1 % m
    ELSE IF n % 2 = 0 THEN (PowerOfTwoMod(n \div 2, m) * PowerOfTwoMod(n \div 2, m)) % m
    ELSE (2 * PowerOfTwoMod(n - 1, m)) % m

\* the whole part of u * 2^ScaleBits / 1000: bit j is the parity of the whole
\* part of u * 2^(ScaleBits - j) / 1000
ScaledThousandth(u) ==
    Trim([i \in 1..ScaleBits |->
              (((u % 2000) * PowerOfTwoMod(ScaleBits - (i - 1), 2000)) % 2000) \div 1000]
         \o Bits(u \div 1000))

\* x (plus a fraction below one when sticky) rounded to a double
RoundToDouble(x, sticky) ==
    LET s == Len(x) - Mantissa
    IN  IF s <= 0 THEN x
        ELSE LET hi == SubSeq(x, s + 1, Len(x))
                 rest == sticky \/ \E i \in 1..(s - 1) : x[i] = 1
                 up == x[s] = 1 /\ (rest \/ hi[1] = 1)
             IN  Zeros(s) \o (IF up THEN Increment(hi) ELSE hi)

\* the double nearest to unitPrice / 1000 (a price in mills), times 2^ScaleBits
DoubleOfMills(unitPrice) ==
    RoundToDouble(ScaledThousandth(unitPrice),
                  ((unitPrice % 1000) * PowerOfTwoMod(ScaleBits, 1000)) % 1000 # 0)

\* unitPrice * amount as the double multiplication gives it, times
\* 2^(ScaleBits + 1): the amount is in half coins
DoubleProduct(unitPrice, amount) ==
    RoundToDouble(Times(DoubleOfMills(unitPrice), amount), FALSE)

\* totalPrice.toFixed(2): the n for which n / 100 is nearest to the double, the
\* larger n on a tie; in cents
ToFixed2(product) ==
    LET y == PlusPower(Times(product, 100), ScaleBits)
    IN  Value(SubSeq(y, ScaleBits + 2, Len(y)))

\* variant: the decimal product is rounded, half up
SellingTotalDecimal(unitPrice, amount) == (unitPrice * amount + 10) \div 20

\* calculateSellingPrice: parseFloat((unitPrice * amount).toFixed(2)), in cents.
\* The decimal product is a whole number of half mills; unless it is half way
\* between two cents it is half a mill or more from the nearest half-way point
\* and the double, which is within 1e-9 of it, rounds as it does.
SellingTotal(unitPrice, amount) ==
    IF (unitPrice * amount) % 20 = 10
    THEN ToFixed2(DoubleProduct(unitPrice, amount))
    ELSE (unitPrice * amount + 10) \div 20

\* parseInt(customId, 10): the fraction is dropped
ParseInt(customId) == (customId \div 2) * 2

\* config.json as validatePurchase reads it (a key that is absent is 0)
DefaultConfig ==
    [minimumPurchase |-> minimumPurchase, maximumPurchase |-> maximumPurchase,
     presaleEndDate |-> presaleEndDate]

\* config.json unreadable: (await readJsonFile(FILES.config)) || {}
EmptyConfig == [minimumPurchase |-> 0, maximumPurchase |-> 0, presaleEndDate |-> 0]

\* variant: validation stops at the first violated rule
validatePurchaseFirstOnly(config, coinAmount, walletAddress, unitPrice, now) ==
    LET errors ==
            IF ~walletAddress THEN <<"wallet">>
            ELSE IF coinAmount = 0 \/ coinAmount * unitPrice < config.minimumPurchase
            THEN <<"minimum">>
            ELSE IF config.maximumPurchase # 0 /\ coinAmount > config.maximumPurchase
            THEN <<"maximum">>
            ELSE IF config.presaleEndDate # 0 /\ now > config.presaleEndDate
            THEN <<"ended">>
            ELSE <<>>
    IN  [isValid |-> errors = <<>>, errors |-> errors]

\* validatePurchase: errors in the order they are pushed, and isValid
validatePurchase(config, coinAmount, walletAddress, unitPrice, now) ==
    LET errors ==
            (IF ~walletAddress THEN <<"wallet">> ELSE <<>>)
            \o (IF coinAmount = 0 \/ coinAmount * unitPrice < config.minimumPurchase
                THEN <<"minimum">> ELSE <<>>)
            \o (IF config.maximumPurchase # 0 /\ coinAmount > config.maximumPurchase
                THEN <<"maximum">> ELSE <<>>)
            \o (IF config.presaleEndDate # 0 /\ now > config.presaleEndDate
                THEN <<"ended">> ELSE <<>>)
    IN  [isValid |-> errors = <<>>, errors |-> errors]

RECURSIVE SumTotal(_)
SumTotal(s) == IF s = <<>> THEN 0 ELSE s[1].totalPrice + SumTotal(Tail(s))

RECURSIVE SumCoins(_)
SumCoins(s) == IF s = <<>> THEN 0 ELSE s[1].coinAmount + SumCoins(Tail(s))

OnDay(s, d) == SelectSeq(s, LAMBDA p : p.timestamp = d)

\* checkDailyLimit: dailyTotal over the ledger read, and the verdict
DailyTotal(ledger, d) == SumTotal(OnDay(ledger, d))
\* variant: the candidate total is left out of the comparison
DailyAllowedWithoutCandidate(ledger, d, totalPrice) == DailyTotal(ledger, d) <= limit

\* variant: a sum equal to the limit is refused
DailyAllowedBelowLimit(ledger, d, totalPrice) == DailyTotal(ledger, d) + totalPrice < limit

DailyAllowed(ledger, d, totalPrice) == DailyTotal(ledger, d) + totalPrice <= limit

\* variant: the coin amount is not added
UpdatedStatsWithoutCoins(s, coinAmount, totalPrice) ==
    [totalCoinsSold |-> s.totalCoinsSold,
     totalRaisedEur |-> s.totalRaisedEur + totalPrice,
     totalPurchases |-> s.totalPurchases + 1]

\* updateStats: the stats written, from the stats read
UpdatedStats(s, coinAmount, totalPrice) ==
    [totalCoinsSold |-> s.totalCoinsSold + coinAmount,
     totalRaisedEur |-> s.totalRaisedEur + totalPrice,
     totalPurchases |-> s.totalPurchases + 1]

(* -------------------------------- Init -------------------------------- *)
\* initializeData on an empty data directory
Init ==
    /\ purchases = <<>>
    /\ stats = ZeroStats
    /\ priceCache = [date |-> 0, price |-> 0]
    /\ orders = <<>>
    /\ today = 1
    /\ nreq = 0
    /\ pc = [p \in Procs |-> "idle"]
    /\ req = [p \in Procs |-> NoReq]
    /\ loc = [p \in Procs |-> NoLoc]
    /\ resp = [p \in Procs |-> "none"]
    /\ committed = ZeroStats
    /\ call = NoCall
    /\ unreadable = {}

(* ------------------------------ requests ------------------------------ *)
Free(p) == pc[p] \in {"idle", "done"}

\* a request is taken by the lowest free handler slot (slots are interchangeable)
CanStart(p) ==
    /\ nreq < MaxRequests
    /\ Free(p)
    /\ \A q \in Procs : q < p => ~Free(q)

\* bodies of POST /api/purchase: complete ones, and one with a field missing
PurchaseBodies ==
    {[kind |-> "purchase", id |-> 0, walletAddress |-> TRUE, coinAmount |-> c,
      paymentMethod |-> "bank", paypalOrderId |-> 0] :
        c \in {Coins(100), Coins(1000), Coins(20000000)}}
    \cup {[kind |-> "purchase", id |-> 0, walletAddress |-> TRUE,
           coinAmount |-> Coins(1000), paymentMethod |-> "paypal", paypalOrderId |-> 1]}
    \cup {[kind |-> "purchase", id |-> 0, walletAddress |-> FALSE,
           coinAmount |-> Coins(1000), paymentMethod |-> "bank", paypalOrderId |-> 0]}

\* bodies of POST /api/paypal/capture-order; coinAmount is the coin_amount the
\* client sends along
CaptureBodies ==
    {[kind |-> "capture", id |-> 0, walletAddress |-> b[1], coinAmount |-> b[2],
      paymentMethod |-> "none", paypalOrderId |-> o] :
        b \in {<<TRUE, Coins(100)>>, <<TRUE, Coins(1000)>>, <<FALSE, Coins(1000)>>},
        o \in 1..MaxOrders}
    \cup {[kind |-> "capture", id |-> 0, walletAddress |-> TRUE,
           coinAmount |-> Coins(1000), paymentMethod |-> "none", paypalOrderId |-> 0]}

\* bodies of POST /api/paypal/create-order
CreateBodies ==
    {[kind |-> "create", id |-> 0, walletAddress |-> FALSE, coinAmount |-> c,
      paymentMethod |-> "none", paypalOrderId |-> 0] : c \in CoinAmounts \cup {0}}

Begin(p, body, nextPc, nextLoc, response) ==
    /\ nreq' = nreq + 1
    /\ req' = [req EXCEPT ![p] = [body EXCEPT !.id = nreq + 1]]
    /\ pc' = [pc EXCEPT ![p] = nextPc]
    /\ loc' = [loc EXCEPT ![p] = nextLoc]
    /\ resp' = [resp EXCEPT ![p] = response]
    /\ UNCHANGED <<purchases, stats, priceCache, orders, today, committed, call, unreadable>>

\* POST /api/purchase, up to the first await
StartPurchase(p) ==
    /\ CanStart(p)
    /\ \E body \in PurchaseBodies :
        IF ~body.walletAddress \/ body.coinAmount = 0 \/ body.paymentMethod = "none"
        THEN Begin(p, body, "done", NoLoc, "400:missing")
        ELSE Begin(p, body, "price_stats",
                   [NoLoc EXCEPT !.ret = "purchase", !.coin = body.coinAmount], "none")

\* POST /api/paypal/create-order, up to the first await
StartCreate(p) ==
    /\ CanStart(p)
    /\ Len(orders) + Cardinality({q \in Procs : ~Free(q) /\ req[q].kind = "create"}) < MaxOrders
    /\ \E body \in CreateBodies :
        IF body.coinAmount = 0
        THEN Begin(p, body, "done", NoLoc, "400:missing")
        ELSE Begin(p, body, "price_stats",
                   [NoLoc EXCEPT !.ret = "create", !.coin = body.coinAmount], "none")

\* POST /api/paypal/capture-order, up to the first await
StartCapture(p) ==
    /\ CanStart(p)
    /\ \E body \in CaptureBodies :
        IF body.paypalOrderId = 0
        THEN Begin(p, body, "done", NoLoc, "400:missing")
        ELSE Begin(p, body, "capture", NoLoc, "none")

(* ------------------------------- storage ------------------------------ *)
\* readJsonFile returns null when the file cannot be read or parsed; every
\* caller replaces null by an empty value
readPurchases == IF "purchases" \in unreadable THEN <<>> ELSE purchases

readStats == IF "stats" \in unreadable THEN ZeroStats ELSE stats

readConfig == IF "config" \in unreadable THEN EmptyConfig ELSE DefaultConfig

(* ------------------------------- pricing ------------------------------ *)
\* the handler responds; its locals are gone
Finish(p, response) ==
    /\ pc' = [pc EXCEPT ![p] = "done"]
    /\ resp' = [resp EXCEPT ![p] = response]
    /\ loc' = [loc EXCEPT ![p] = NoLoc]

\* what a handler does with the unit price calculateCoinPrice returned, up to
\* its next await
Return(p, unitPrice) ==
    LET l == [loc[p] EXCEPT !.unitPrice = unitPrice]
        validation == validatePurchase(l.config, l.coin, req[p].walletAddress, unitPrice, today)
        priced == [l EXCEPT !.total = SellingTotal(unitPrice, l.coin)]
    IN  IF l.ret = "stats"
        THEN Finish(p, "200:stats")
        ELSE IF l.ret = "validate"
        THEN IF ~validation.isValid
             THEN Finish(p, "500:validation")
             ELSE /\ pc' = [pc EXCEPT ![p] = "price_stats"]
                  /\ loc' = [loc EXCEPT ![p] = [l EXCEPT !.ret = "process"]]
                  /\ resp' = resp
        ELSE /\ pc' = [pc EXCEPT ![p] =
                        CASE l.ret = "purchase" -> "limit_read"
                          [] l.ret = "create" -> "create_order"
                          [] OTHER -> "save_read"]
             /\ loc' = [loc EXCEPT ![p] = priced]
             /\ resp' = resp

\* processPurchase, validatePurchase: the config is read
ValidateReadConfig(p) ==
    /\ pc[p] = "validate_config"
    /\ pc' = [pc EXCEPT ![p] = "price_stats"]
    /\ loc' = [loc EXCEPT ![p].config = readConfig]
    /\ unreadable' = unreadable \ {"config"}
    /\ UNCHANGED <<purchases, stats, priceCache, orders, today, nreq, req, resp, committed, call>>

\* calculateCoinPrice: config and stats are read, getISODate is taken
PriceReadStats(p) ==
    /\ pc[p] = "price_stats"
    /\ pc' = [pc EXCEPT ![p] = "price_cache"]
    /\ loc' = [loc EXCEPT ![p].raised = readStats.totalRaisedEur, ![p].day = today]
    /\ unreadable' = unreadable \ {"stats"}
    /\ UNCHANGED <<purchases, stats, priceCache, orders, today, nreq, req, resp, committed, call>>

\* getCachedPriceOrCalculate: the cache is read
PriceReadCache(p) ==
    /\ pc[p] = "price_cache"
    /\ IF CacheHit(priceCache, loc[p].day)
       THEN Return(p, priceCache.price)
       ELSE /\ pc' = [pc EXCEPT ![p] = "price_write"]
            /\ loc' = [loc EXCEPT ![p].unitPrice =
                        FinalPrice(fundingGoal, coinStartPrice, coinEndPrice, loc[p].raised)]
            /\ resp' = resp
    /\ UNCHANGED <<purchases, stats, priceCache, orders, today, nreq, req, committed, call, unreadable>>

\* getCachedPriceOrCalculate: the cache is written
PriceWriteCache(p) ==
    /\ pc[p] = "price_write"
    /\ priceCache' = [date |-> loc[p].day, price |-> loc[p].unitPrice]
    /\ Return(p, loc[p].unitPrice)
    /\ UNCHANGED <<purchases, stats, orders, today, nreq, req, committed, call, unreadable>>

(* --------------------------- purchase commit -------------------------- *)

\* POST /api/purchase: checkDailyLimit reads the ledger; an admitted request
\* builds purchaseToSave and calls savePurchase
LimitRead(p) ==
    /\ pc[p] = "limit_read"
    /\ IF DailyAllowed(readPurchases, today, loc[p].total)
       THEN /\ pc' = [pc EXCEPT ![p] = "save_read"]
            /\ loc' = [loc EXCEPT ![p].newP =
                        [id |-> req[p].id, walletAddress |-> req[p].walletAddress,
                         coinAmount |-> loc[p].coin, totalPrice |-> loc[p].total,
                         paymentMethod |-> req[p].paymentMethod,
                         paypalOrderId |-> req[p].paypalOrderId,
                         timestamp |-> today, route |-> "purchase"]]
            /\ resp' = resp
       ELSE Finish(p, "400:limit")
    /\ unreadable' = unreadable \ {"purchases"}
    /\ UNCHANGED <<purchases, stats, priceCache, orders, today, nreq, req, committed, call>>

\* savePurchase: the ledger is read and newPurchase is built; processPurchase
\* passes no timestamp, so the record gets the date of this moment
SaveRead(p) ==
    /\ pc[p] = "save_read"
    /\ pc' = [pc EXCEPT ![p] = "save_write"]
    /\ loc' = [loc EXCEPT
                ![p].snap = readPurchases,
                ![p].newP =
                    IF req[p].kind = "purchase" THEN loc[p].newP
                    ELSE [id |-> req[p].id, walletAddress |-> req[p].walletAddress,
                          coinAmount |-> loc[p].coin, totalPrice |-> loc[p].total,
                          paymentMethod |-> "paypal",
                          paypalOrderId |-> req[p].paypalOrderId,
                          timestamp |-> today, route |-> "capture"]]
    /\ unreadable' = unreadable \ {"purchases"}
    /\ UNCHANGED <<purchases, stats, priceCache, orders, today, nreq, req, resp, committed, call>>

\* savePurchase: purchases.push(newPurchase) and the ledger is written
SaveWrite(p) ==
    /\ pc[p] = "save_write"
    /\ purchases' = Append(loc[p].snap, loc[p].newP)
    /\ pc' = [pc EXCEPT ![p] = "stats_read"]
    /\ loc' = [loc EXCEPT ![p].snap = <<>>]
    /\ UNCHANGED <<stats, priceCache, orders, today, nreq, req, resp, committed, call, unreadable>>

\* updateStats: the stats are read
StatsRead(p) ==
    /\ pc[p] = "stats_read"
    /\ pc' = [pc EXCEPT ![p] = "stats_write"]
    /\ loc' = [loc EXCEPT ![p].snapStats = readStats]
    /\ unreadable' = unreadable \ {"stats"}
    /\ UNCHANGED <<purchases, stats, priceCache, orders, today, nreq, req, resp, committed, call>>

\* updateStats: the stats are written; the handler responds
StatsWrite(p) ==
    /\ pc[p] = "stats_write"
    /\ stats' = UpdatedStats(loc[p].snapStats, loc[p].newP.coinAmount, loc[p].newP.totalPrice)
    /\ Finish(p, "ok")
    /\ committed' = UpdatedStats(committed, loc[p].newP.coinAmount, loc[p].newP.totalPrice)
    /\ UNCHANGED <<purchases, priceCache, orders, today, nreq, req, call, unreadable>>

(* ------------------------------- gateway ------------------------------ *)
\* what ordersController.captureOrder can answer for an order: it throws, or
\* returns a body with or without a status, payments and a customId; for an
\* unknown or an already captured order the gateway refuses and the call throws
CaptureResults(o) ==
    IF o \notin 1..Len(orders) \/ orders[o].captured
    THEN {[throws |-> TRUE, status |-> "none", payments |-> FALSE, customId |-> 0,
           captured |-> FALSE]}
    ELSE {[throws |-> TRUE, status |-> "none", payments |-> FALSE, customId |-> 0,
           captured |-> FALSE],
          [throws |-> FALSE, status |-> "PENDING", payments |-> FALSE,
           customId |-> orders[o].customId, captured |-> FALSE],
          [throws |-> FALSE, status |-> "none", payments |-> FALSE, customId |-> 0,
           captured |-> FALSE]}
         \cup {[throws |-> FALSE, status |-> "COMPLETED", payments |-> TRUE,
                customId |-> c, captured |-> TRUE] : c \in {0, orders[o].customId}}
         \cup {[throws |-> FALSE, status |-> "none", payments |-> TRUE,
                customId |-> orders[o].customId, captured |-> k] : k \in BOOLEAN}

\* variant: every captured body counts as completed
CaptureStatusAlwaysCompleted(captured) == "COMPLETED"

\* capture-order: the status the handler derives from the captured body
CaptureStatus(captured) ==
    IF captured.status # "none" THEN captured.status
    ELSE IF captured.payments THEN "COMPLETED" ELSE "none"

\* variant: the coin amount is taken from the request body, parseInt(coin_amount),
\* as the capture-order handler registered second (lines 1010-1045) takes it
FinalCoinAmountFromBody(body, captured) == ParseInt(body.coinAmount)

\* capture-order: finalCoinAmount from purchaseUnits[0].customId (0: none)
FinalCoinAmount(body, captured) ==
    IF captured.customId # 0 THEN ParseInt(captured.customId) ELSE 0

\* POST /api/paypal/capture-order: capturePayPalOrder returns or throws; the
\* handler checks the status, recovers the coin amount, calls processPurchase
CaptureOrder(p) ==
    /\ pc[p] = "capture"
    /\ \E captured \in CaptureResults(req[p].paypalOrderId) :
        LET l == [loc[p] EXCEPT !.capStatus = captured.status,
                                !.capPayments = captured.payments,
                                !.capCustomId = captured.customId]
            finalCoinAmount == FinalCoinAmount(req[p], captured)
        IN  /\ orders' = IF captured.captured
                         THEN [orders EXCEPT ![req[p].paypalOrderId].captured = TRUE]
                         ELSE orders
            /\ IF captured.throws
               THEN Finish(p, "500:gateway")
               ELSE IF CaptureStatus(captured) # "COMPLETED"
               THEN Finish(p, "400:paypal")
               ELSE IF finalCoinAmount = 0
               THEN Finish(p, "400:coin")
               ELSE /\ pc' = [pc EXCEPT ![p] = "validate_config"]
                    /\ loc' = [loc EXCEPT ![p] =
                                [l EXCEPT !.coin = finalCoinAmount, !.ret = "validate"]]
                    /\ resp' = resp
    /\ UNCHANGED <<purchases, stats, priceCache, today, nreq, req, committed, call, unreadable>>

\* createPayPalOrder: ordersController.createOrder returns or throws; the order
\* carries customId = String(coinAmount) and the priced amount
CreateOrder(p) ==
    /\ pc[p] = "create_order"
    /\ \E ok \in BOOLEAN :
        IF ok
        THEN /\ orders' = Append(orders, [customId |-> req[p].coinAmount,
                                          amount |-> loc[p].total, captured |-> FALSE])
             /\ Finish(p, "ok")
        ELSE /\ orders' = orders
             /\ Finish(p, "500:gateway")
    /\ UNCHANGED <<purchases, stats, priceCache, today, nreq, req, committed, call, unreadable>>

(* ----------------------------- read routes ---------------------------- *)
\* GET /api/purchases and GET /api/stats carry no body
ReadBody(kind) ==
    [kind |-> kind, id |-> 0, walletAddress |-> FALSE, coinAmount |-> 0,
     paymentMethod |-> "none", paypalOrderId |-> 0]

\* GET /api/purchases, up to the first await
StartList(p) ==
    /\ CanStart(p)
    /\ Begin(p, ReadBody("list"), "list_read", NoLoc, "none")

\* GET /api/purchases: the ledger is read, masked and sent
ListPurchases(p) ==
    /\ pc[p] = "list_read"
    /\ Finish(p, "200:purchases")
    /\ unreadable' = unreadable \ {"purchases"}
    /\ UNCHANGED <<purchases, stats, priceCache, orders, today, nreq, req, committed, call>>

\* GET /api/stats, up to the first await
StartStats(p) ==
    /\ CanStart(p)
    /\ Begin(p, ReadBody("stats"), "get_stats", [NoLoc EXCEPT !.ret = "stats"], "none")

\* variant: the handler stores the empty stats it falls back to
GetStatsResetting(p) ==
    /\ pc[p] = "get_stats"
    /\ pc' = [pc EXCEPT ![p] = "get_config"]
    /\ loc' = [loc EXCEPT ![p].snapStats = readStats]
    /\ stats' = ZeroStats
    /\ unreadable' = unreadable \ {"stats"}
    /\ UNCHANGED <<purchases, priceCache, orders, today, nreq, req, resp, committed, call>>

\* GET /api/stats: the stats are read
GetStats(p) ==
    /\ pc[p] = "get_stats"
    /\ pc' = [pc EXCEPT ![p] = "get_config"]
    /\ loc' = [loc EXCEPT ![p].snapStats = readStats]
    /\ unreadable' = unreadable \ {"stats"}
    /\ UNCHANGED <<purchases, stats, priceCache, orders, today, nreq, req, resp, committed, call>>

\* GET /api/stats: the config is read; calculateCoinPrice follows
GetConfig(p) ==
    /\ pc[p] = "get_config"
    /\ pc' = [pc EXCEPT ![p] = "price_stats"]
    /\ loc' = [loc EXCEPT ![p].config = readConfig]
    /\ unreadable' = unreadable \ {"config"}
    /\ UNCHANGED <<purchases, stats, priceCache, orders, today, nreq, req, resp, committed, call>>

(* -------------------------------- clock ------------------------------- *)
\* midnight: getISODate returns the next date
Tick ==
    /\ today < MaxDay
    /\ today' = today + 1
    /\ UNCHANGED <<purchases, stats, priceCache, orders, nreq, pc, req, loc, resp, committed, call, unreadable>>

(* --------------------------- specifications --------------------------- *)
Handler(p) ==
    \/ StartPurchase(p)
    \/ StartCreate(p)
    \/ StartCapture(p)
    \/ ValidateReadConfig(p)
    \/ PriceReadStats(p)
    \/ PriceReadCache(p)
    \/ PriceWriteCache(p)
    \/ LimitRead(p)
    \/ SaveRead(p)
    \/ SaveWrite(p)
    \/ StatsRead(p)
    \/ StatsWrite(p)
    \/ CaptureOrder(p)
    \/ CreateOrder(p)

\* concurrent request handlers; the date may change at any await
Next == (\E p \in Procs : Handler(p)) \/ Tick

Spec == Init /\ [][Next]_vars

\* serialized execution: one request at a time, no date change inside a request
Quiet == \A p \in Procs : Free(p)

TickQuiet == Quiet /\ Tick

NextSerial == Handler(1) \/ TickQuiet

SpecSerial == Init /\ [][NextSerial]_vars

\* the read routes
ReadHandler(p) ==
    \/ StartList(p)
    \/ ListPurchases(p)
    \/ StartStats(p)
    \/ GetStats(p)
    \/ GetConfig(p)

\* serialized execution of all routes
NextRoutes == Handler(1) \/ ReadHandler(1) \/ TickQuiet

SpecRoutes == Init /\ [][NextRoutes]_vars

(* --------------------------- storage failures ------------------------- *)
\* the stores whose reads are followed through a failure; of the reads of
\* config.json it is validatePurchase's whose failure is followed
Stores == {"config", "purchases", "stats"}

\* the next read of a store fails: the file is missing, locked, or caught half
\* written
ReadFails(f) ==
    /\ f \notin unreadable
    /\ f = "config" => \E p \in Procs : pc[p] = "validate_config"
    /\ unreadable' = unreadable \cup {f}
    /\ UNCHANGED <<purchases, stats, priceCache, orders, today, nreq, pc, req, loc, resp,
                   committed, call>>

\* serialized execution in which reads of the stores can fail
NextStorage == Handler(1) \/ TickQuiet \/ (\E f \in Stores : ReadFails(f))

SpecStorage == Init /\ [][NextStorage]_vars

(* ---------------------------- write failures -------------------------- *)
\* writeJsonFile throws (disk full, file locked): the file keeps its content,
\* the error reaches the handler's catch and the request is answered with 500

\* getCachedPriceOrCalculate: the write of the price cache throws
CacheWriteFails(p) ==
    /\ pc[p] = "price_write"
    /\ Finish(p, "500:storage")
    /\ UNCHANGED <<purchases, stats, priceCache, orders, today, nreq, req, committed, call,
                   unreadable>>

\* savePurchase: the write of the ledger throws
SaveWriteFails(p) ==
    /\ pc[p] = "save_write"
    /\ Finish(p, "500:storage")
    /\ UNCHANGED <<purchases, stats, priceCache, orders, today, nreq, req, committed, call,
                   unreadable>>

\* updateStats: the write of the stats throws, after the ledger was written
StatsWriteFails(p) ==
    /\ pc[p] = "stats_write"
    /\ Finish(p, "500:storage")
    /\ UNCHANGED <<purchases, stats, priceCache, orders, today, nreq, req, committed, call,
                   unreadable>>

WriteFails(p) ==
    \/ CacheWriteFails(p)
    \/ SaveWriteFails(p)
    \/ StatsWriteFails(p)

\* serialized execution in which writes of the stores can fail
NextWrites == Handler(1) \/ WriteFails(1) \/ TickQuiet

SpecWrites == Init /\ [][NextWrites]_vars

(* ------------------------ functions on their own --------------------- *)
\* one function is called once, outside any request, with arguments drawn
\* from the sets below

\* the raised amounts tried are whole multiples of a quarter of the funding
\* goal, one of them negative (stats.totalRaisedEur after refunds or a negative
\* coin amount); a missing amount reaches the formula as 0 (?? 0, || 0)
MaxRaisedSteps == 5

RaisedStep == (fundingGoal \div 4) * 100

\* funding goals: negative, zero, one euro, the configured goal
Goals == {0 - 1, 0, 1, fundingGoal}

\* <<start price, end price>> in mills: 0.02/0.10, the defaults, a falling pair
PricePairs == {<<20, 100>>, <<coinStartPrice, coinEndPrice>>, <<100, 25>>}

PriceCalls ==
    {[fn |-> "getCachedPriceOrCalculate",
      arg |-> [fundingZiel |-> g, coinStartpreis |-> pr[1], coinEndpreis |-> pr[2],
               insgesamtVerkauft |-> k * RaisedStep],
      out |-> 0, done |-> FALSE] :
        g \in Goals, pr \in PricePairs, k \in (0 - 1)..MaxRaisedSteps}

\* candidate totals tried: 0.01 EUR up to this many cents
MaxCandidate == 2

\* a stored purchase of a given day and total
Stored(i, day, totalPrice) ==
    [NoPurchase EXCEPT !.id = i, !.walletAddress = TRUE, !.timestamp = day,
                       !.totalPrice = totalPrice, !.route = "purchase"]

\* ledgers of two purchases: one at or just below the cap, one of 0.00 or 0.01
\* EUR, each on any day
Ledgers ==
    {<<Stored(1, a, limit - k), Stored(2, b, y)>> :
        a \in 1..MaxDay, k \in 0..MaxCandidate, b \in 1..MaxDay, y \in 0..1}

LimitCalls ==
    {[fn |-> "checkDailyLimit", arg |-> [totalPrice |-> t], out |-> FALSE, done |-> FALSE] :
        t \in 1..MaxCandidate}

\* configs tried by validatePurchase: the defaults; a sale that ends with day 1;
\* a maximum so low that a purchase is above it and below the minimum total
EarlyConfig == [DefaultConfig EXCEPT !.presaleEndDate = 1]

NarrowConfig == [EarlyConfig EXCEPT !.maximumPurchase = Coins(50)]

ValidateCalls ==
    {[fn |-> "validatePurchase",
      arg |-> [config |-> c, coinAmount |-> n, walletAddress |-> w],
      out |-> [isValid |-> FALSE, errors |-> <<>>], done |-> FALSE] :
        c \in {DefaultConfig, EarlyConfig, NarrowConfig}, n \in CoinAmounts \cup {0},
        w \in BOOLEAN}

\* coin amounts priced on their own: 1/2 coin up to this many half coins
MaxSellAmount == 100

SellCalls ==
    {[fn |-> "calculateSellingPrice", arg |-> [coinAmount |-> n], out |-> 0, done |-> FALSE] :
        n \in 1..MaxSellAmount}

\* the price the cache holds for today when calculateSellingPrice is called:
\* the start price, a price further up the curve, 0.02, the end price
CachedPrices == {coinStartPrice, 31, 20, coinEndPrice}

InitPure ==
    /\ \/ /\ call \in PriceCalls
          /\ purchases = <<>>
          /\ today = 1
          /\ priceCache = [date |-> 0, price |-> 0]
       \/ /\ call \in SellCalls
          /\ purchases = <<>>
          /\ today = 1
          /\ priceCache \in {[date |-> 1, price |-> u] : u \in CachedPrices}
       \/ /\ call \in ValidateCalls
          /\ purchases = <<>>
          /\ today \in 1..MaxDay
          /\ priceCache = [date |-> 0, price |-> 0]
       \/ /\ call \in LimitCalls
          /\ purchases \in Ledgers
          /\ today \in 1..MaxDay
          /\ priceCache = [date |-> 0, price |-> 0]
    /\ stats = ZeroStats
    /\ orders = <<>>
    /\ nreq = 0
    /\ pc = [p \in Procs |-> "idle"]
    /\ req = [p \in Procs |-> NoReq]
    /\ loc = [p \in Procs |-> NoLoc]
    /\ resp = [p \in Procs |-> "none"]
    /\ committed = ZeroStats
    /\ unreadable = {}

Returns(out) ==
    /\ ~call.done
    /\ call' = [call EXCEPT !.out = out, !.done = TRUE]
    /\ UNCHANGED <<purchases, stats, priceCache, orders, today, nreq, pc, req, loc, resp,
                   committed, unreadable>>

\* getCachedPriceOrCalculate with an empty cache: finalPrice
CallGetCachedPrice ==
    /\ call.fn = "getCachedPriceOrCalculate"
    /\ Returns(FinalPrice(call.arg.fundingZiel, call.arg.coinStartpreis,
                          call.arg.coinEndpreis, call.arg.insgesamtVerkauft))

\* checkDailyLimit on the stored ledger: allowed
CallCheckDailyLimit ==
    /\ call.fn = "checkDailyLimit"
    /\ Returns(DailyAllowed(purchases, today, call.arg.totalPrice))

\* calculateCoinPrice with the initialized config and an empty cache
CoinPrice == FinalPrice(fundingGoal, coinStartPrice, coinEndPrice, stats.totalRaisedEur)

\* validatePurchase under a given config
CallValidatePurchase ==
    /\ call.fn = "validatePurchase"
    /\ Returns(validatePurchase(call.arg.config, call.arg.coinAmount,
                                call.arg.walletAddress, CoinPrice, today))

\* calculateSellingPrice with today's price in the cache: totalPrice
CallSellingPrice ==
    /\ call.fn = "calculateSellingPrice"
    /\ CacheHit(priceCache, today)
    /\ Returns(SellingTotal(priceCache.price, call.arg.coinAmount))

NextPure ==
    CallGetCachedPrice \/ CallCheckDailyLimit \/ CallValidatePurchase \/ CallSellingPrice

SpecPure == InitPure /\ [][NextPure]_vars

(* ------------------------------- claims ------------------------------- *)
Fold(ledger) ==
    [totalCoinsSold |-> SumCoins(ledger), totalRaisedEur |-> SumTotal(ledger),
     totalPurchases |-> Len(ledger)]

(* ---------------------- two concurrent purchases ---------------------- *)
\* the unit price once the sale has raised about one daily cap
NearCapPrice == FinalPrice(fundingGoal, coinStartPrice, coinEndPrice, limit)

\* same-day sums already in the ledger when the two requests arrive: nothing,
\* or the cap less one small total, one large total, or both
PriorSums ==
    LET small == SellingTotal(NearCapPrice, Coins(100))
        large == SellingTotal(NearCapPrice, Coins(1000))
    IN  {0, limit - small, limit - large, limit - (small + large)}

\* an earlier direct purchase of day 1 at the start price with this total
Prior(s) ==
    [Stored(MaxRequests + 1, 1, s) EXCEPT !.coinAmount = (s * 4) \div 5,
                                          !.paymentMethod = "bank"]

InitPair ==
    /\ purchases \in {IF s = 0 THEN <<>> ELSE <<Prior(s)>> : s \in PriorSums}
    /\ stats = Fold(purchases)
    /\ priceCache = [date |-> 0, price |-> 0]
    /\ orders = <<>>
    /\ today = 1
    /\ nreq = 0
    /\ pc = [p \in Procs |-> "idle"]
    /\ req = [p \in Procs |-> NoReq]
    /\ loc = [p \in Procs |-> NoLoc]
    /\ resp = [p \in Procs |-> "none"]
    /\ committed = Fold(purchases)
    /\ call = NoCall
    /\ unreadable = {}

\* POST /api/purchase, each handler serving one request
PurchaseHandler(p) ==
    \/ pc[p] = "idle" /\ StartPurchase(p)
    \/ PriceReadStats(p)
    \/ PriceReadCache(p)
    \/ PriceWriteCache(p)
    \/ LimitRead(p)
    \/ SaveRead(p)
    \/ SaveWrite(p)
    \/ StatsRead(p)
    \/ StatsWrite(p)

\* the two requests of the scenario
Pair == {p \in Procs : p <= 2}

NextPair == (\E p \in Pair : PurchaseHandler(p)) \/ Tick

SpecPair == InitPair /\ [][NextPair]_vars

Committing(p) == pc[p] \in {"save_write", "stats_read", "stats_write"}

\* C1: once all the purchase commits have finished, the ledger holds one record
\* per commit and the stats hold the count and the sums of the commits (no lost
\* update), whatever the interleaving of their reads and writes.
C1_NoLostUpdate ==
    Quiet => /\ Len(purchases) = committed.totalPurchases
             /\ stats = committed

\* C2: executed one at a time from the initialized data, whenever no request is
\* in progress the stats equal the fold over the ledger.
C2_StatsEqualFold == Quiet => stats = Fold(purchases)

C2_Witness ==
    /\ Quiet
    /\ Len(purchases) >= 2
    /\ \E i, j \in DOMAIN purchases :
        purchases[i].route = "purchase" /\ purchases[j].route = "capture"

\* C3: in no reachable state, the middle of savePurchase included, does the
\* stored ledger hold a purchase the stored stats lack, or the reverse.
C3_CommitAtomic == stats = Fold(purchases)

\* C4: the ledger never holds two purchases with the same external order id.
C4_CaptureCountedOnce ==
    \A i, j \in DOMAIN purchases :
        (i # j /\ purchases[i].paypalOrderId # 0)
            => purchases[i].paypalOrderId # purchases[j].paypalOrderId

C6_OnlyCompleted ==
    \A p \in Procs :
        (req[p].kind = "capture" /\ pc[p] \in {"stats_read", "stats_write"})
            => loc[p].capStatus = "COMPLETED"

\* C7: every purchase in the ledger passed the four validation rules: wallet
\* present, total >= minimum purchase, coin amount <= maximum purchase, not
\* after the sale end.
C7_CommittedValid ==
    \A i \in DOMAIN purchases :
        /\ purchases[i].walletAddress
        /\ purchases[i].totalPrice >= minimumPurchaseEur * 100
        /\ purchases[i].coinAmount <= maximumPurchase
        /\ purchases[i].timestamp <= presaleEndDate

\* C8: under serialized execution a direct purchase is admitted only when the
\* same-day ledger sum plus its total is within the cap, so the same-day sum up
\* to and including a direct purchase never exceeds the cap.
C8_DirectWithinCap ==
    /\ \A p \in Procs :
        (req[p].kind = "purchase" /\ pc[p] \in {"save_read", "save_write"})
            => DailyTotal(purchases, today) + loc[p].total <= limit
    /\ \A i \in DOMAIN purchases :
        purchases[i].route = "purchase"
            => DailyTotal(SubSeq(purchases, 1, i), purchases[i].timestamp) <= limit

C8_Witness ==
    /\ Quiet
    /\ purchases # <<>>
    /\ purchases[Len(purchases)].route = "purchase"
    /\ DailyTotal(purchases, purchases[Len(purchases)].timestamp) = limit
    /\ \E p \in Procs : resp[p] = "400:limit"

\* C9: under serialized execution the same-day sum of committed totals stays
\* within the cap after any sequence of direct and gateway purchases.
C9_DailyCap == \A d \in 1..MaxDay : DailyTotal(purchases, d) <= limit

\* C10: once a price is stored in the price cache for a day, no other price is
\* ever stored for that day.
C10_OnePricePerDay ==
    [][priceCache.date = priceCache'.date => priceCache.price = priceCache'.price]_vars

\* C11: under serialized execution every calculateCoinPrice call returns the
\* price the cache holds for the call's day when it returns, and the price
\* held for a day is never replaced: calls on the same day return the same
\* price, whatever was committed to the stats between them.
PricingReturns(p) ==
    /\ pc[p] \in {"price_cache", "price_write"}
    /\ pc'[p] \notin {"price_cache", "price_write"}

ReturnedPrice(p) == IF pc[p] = "price_cache" THEN priceCache.price ELSE loc[p].unitPrice

C11_SameDaySamePrice ==
    [][/\ \A p \in Procs :
            PricingReturns(p) =>
                /\ priceCache'.date = loc[p].day
                /\ priceCache'.price = ReturnedPrice(p)
       /\ priceCache'.date = priceCache.date => priceCache'.price = priceCache.price]_vars

C11_Witness ==
    \E p \in Procs :
        /\ pc[p] \in {"limit_read", "create_order", "save_read"}
        /\ loc[p].day = priceCache.date
        /\ loc[p].unitPrice = priceCache.price
        /\ purchases # <<>>
        /\ purchases[Len(purchases)].timestamp = loc[p].day
        /\ FinalPrice(fundingGoal, coinStartPrice, coinEndPrice, stats.totalRaisedEur)
               # priceCache.price

\* C12: on a cache miss the price is startPrice + (raised / goal) * (endPrice -
\* startPrice), cut to the mill, when the goal is positive and startPrice when
\* it is not; with 0.02 / 0.10 / 5,500,000 it is 0.02 at 0 raised, 0.06 at
\* 2,750,000 and 0.10 at 5,500,000.
PriceCallDone == call.fn = "getCachedPriceOrCalculate" /\ call.done

RaisedEur(a) == a.insgesamtVerkauft \div 100

C12_BondingCurve ==
    PriceCallDone =>
        LET a == call.arg
            above == call.out - a.coinStartpreis
            span == a.coinEndpreis - a.coinStartpreis
        IN  /\ a.fundingZiel <= 0 => call.out = a.coinStartpreis
            /\ a.fundingZiel > 0 =>
                /\ a.fundingZiel * above <= RaisedEur(a) * span
                /\ RaisedEur(a) * span < a.fundingZiel * (above + 1)
            /\ (a.fundingZiel = 5500000 /\ a.coinStartpreis = 20 /\ a.coinEndpreis = 100) =>
                /\ RaisedEur(a) = 0 => call.out = 20
                /\ RaisedEur(a) = 2750000 => call.out = 60
                /\ RaisedEur(a) = 5500000 => call.out = 100

C12_Witness ==
    /\ PriceCallDone
    /\ call.arg.fundingZiel = 5500000
    /\ call.arg.coinStartpreis = 20
    /\ call.arg.coinEndpreis = 100
    /\ RaisedEur(call.arg) = 2750000
    /\ call.out = 60

C14_LedgerAppendOnly ==
    [][\A i \in DOMAIN purchases :
          \E j \in DOMAIN purchases' : purchases'[j] = purchases[i]]_vars

\* C15: the stored totalRaisedEur and totalCoinsSold never decrease from one
\* state to the next, whatever the sequence or interleaving of requests.
C15_TotalsMonotonic ==
    [][/\ stats'.totalRaisedEur >= stats.totalRaisedEur
       /\ stats'.totalCoinsSold >= stats.totalCoinsSold]_vars

\* C16: with the cap of 500,000 and same-day purchases summing to 499,999.99
\* checkDailyLimit admits a new total of 0.01 (the sum reaches the cap) and
\* rejects a new total of 0.02 (the sum passes it); with same-day purchases
\* summing to 500,000.00 it rejects a new total of 0.02.
LimitCallDone == call.fn = "checkDailyLimit" /\ call.done

C16_CapScenarioInclusive ==
    LimitCallDone =>
        /\ (DailyTotal(purchases, today) = 49999999 /\ call.arg.totalPrice = 1) => call.out
        /\ (DailyTotal(purchases, today) = 49999999 /\ call.arg.totalPrice = 2) => ~call.out
        /\ (DailyTotal(purchases, today) = 50000000 /\ call.arg.totalPrice = 2) => ~call.out

C16_Witness ==
    /\ LimitCallDone
    /\ DailyTotal(purchases, today) = 49999999
    /\ SumTotal(purchases) > 49999999
    /\ call.arg.totalPrice = 1
    /\ call.out

\* C16 as stated: with same-day purchases summing to 499,999.99 a new total of
\* 0.02 is admitted; with 500,000.00 it is rejected.
C16_CapScenario ==
    LimitCallDone =>
        /\ (DailyTotal(purchases, today) = 49999999 /\ call.arg.totalPrice = 2) => call.out
        /\ (DailyTotal(purchases, today) = 50000000 /\ call.arg.totalPrice = 2) => ~call.out

\* C17: validatePurchase returns one error for each violated rule (wallet
\* present, computed total >= minimum, coin amount <= maximum, sale not ended),
\* none for a satisfied rule, and isValid exactly when there is no error.
ValidateCallDone == call.fn = "validatePurchase" /\ call.done

Violated(a) ==
    (IF ~a.walletAddress THEN {"wallet"} ELSE {})
    \cup (IF a.coinAmount * CoinPrice < a.config.minimumPurchase THEN {"minimum"} ELSE {})
    \cup (IF a.coinAmount > a.config.maximumPurchase THEN {"maximum"} ELSE {})
    \cup (IF today > a.config.presaleEndDate THEN {"ended"} ELSE {})

C17_AllErrorsCollected ==
    ValidateCallDone =>
        /\ {call.out.errors[i] : i \in DOMAIN call.out.errors} = Violated(call.arg)
        /\ Len(call.out.errors) = Cardinality(Violated(call.arg))
        /\ call.out.isValid <=> Violated(call.arg) = {}

C17_Witness ==
    /\ ValidateCallDone
    /\ Cardinality(Violated(call.arg)) = 4
    /\ Len(call.out.errors) = 4
    /\ ~call.out.isValid

\* C18: a request that ends on a validation failure is answered with a client
\* error (status 400), in capture-order after a successful capture too; a
\* gateway failure and a daily-limit rejection are answered as such.
FailureKind(r) ==
    CASE r = "500:validation" -> "validation"
      [] r \in {"500:gateway", "400:paypal"} -> "gateway"
      [] r = "400:limit" -> "limit"
      [] OTHER -> "none"

StatusCode(r) ==
    CASE r \in {"400:missing", "400:limit", "400:paypal", "400:coin"} -> 400
      [] r \in {"500:validation", "500:gateway"} -> 500
      [] OTHER -> 200

C18_ValidationIsClientError ==
    \A p \in Procs :
        FailureKind(resp[p]) = "validation" => StatusCode(resp[p]) = 400

\* C19: a request that reads an unreadable config, ledger or stats ends there
\* with a storage error and changes neither ledger nor stats; no record leaves
\* the ledger and the purchase count never drops (an unreadable store is not
\* taken for an empty one and overwritten); every gateway purchase in the
\* ledger satisfies the configured minimum, maximum and sale end.
FailedRead(p) ==
    \/ pc[p] = "validate_config" /\ "config" \in unreadable
    \/ pc[p] \in {"limit_read", "save_read"} /\ "purchases" \in unreadable
    \/ pc[p] \in {"price_stats", "stats_read"} /\ "stats" \in unreadable

FatalOnFailedRead ==
    \A p \in Procs :
        (FailedRead(p) /\ pc'[p] # pc[p]) =>
            /\ pc'[p] = "done"
            /\ resp'[p] = "500:storage"
            /\ purchases' = purchases
            /\ stats' = stats

NeverOverwritten ==
    /\ \A i \in DOMAIN purchases : i \in DOMAIN purchases' /\ purchases'[i] = purchases[i]
    /\ stats'.totalPurchases >= stats.totalPurchases

CapturesValidated ==
    \A i \in DOMAIN purchases' :
        purchases'[i].route = "capture" =>
            /\ purchases'[i].totalPrice >= minimumPurchaseEur * 100
            /\ purchases'[i].coinAmount <= maximumPurchase
            /\ purchases'[i].timestamp <= presaleEndDate

C19_StorageFailureFatal ==
    [][FatalOnFailedRead /\ NeverOverwritten /\ CapturesValidated]_vars

\* C20: the totalPrice calculateSellingPrice returns is unitPrice * coinAmount
\* rounded to the cent, a product half way between two cents going to the
\* cent further from zero.
SellCallDone == call.fn = "calculateSellingPrice" /\ call.done

C20_RoundHalfAway ==
    SellCallDone =>
        /\ 20 * call.out <= priceCache.price * call.arg.coinAmount + 10
        /\ priceCache.price * call.arg.coinAmount + 10 < 20 * (call.out + 1)

\* C21: a capture-order request writes the ledger or the stats only after
\* captureOrder returned a body it reads as COMPLETED; the step in which
\* captureOrder returns writes nothing, and a request answered with a gateway
\* failure (a throw or another status) has left ledger and stats as they were.
CaptureSucceeded(p) ==
    \/ loc[p].capStatus = "COMPLETED"
    \/ loc[p].capStatus = "none" /\ loc[p].capPayments

Recorded(p) == {i \in DOMAIN purchases : purchases[i].id = req[p].id}

RecordedTotal(p) == purchases[CHOOSE i \in Recorded(p) : TRUE].totalPrice

C22_OvershootAtMostSmaller ==
    \A p, q \in Procs :
        (/\ p < q
         /\ nreq = 2
         /\ req[p].kind = "purchase" /\ resp[p] = "ok"
         /\ req[q].kind = "purchase" /\ resp[q] = "ok")
        => \A d \in 1..MaxDay :
              DailyTotal(purchases, d) <=
                  limit + (IF Recorded(p) # {} /\ Recorded(q) # {}
                           THEN Min({RecordedTotal(p), RecordedTotal(q)})
                           ELSE 0)

C22_Witness ==
    /\ nreq = 2
    /\ \A p \in Pair : req[p].kind = "purchase" /\ resp[p] = "ok" /\ Recorded(p) # {}
    /\ RecordedTotal(1) < RecordedTotal(2)
    /\ DailyTotal(purchases, 1) = limit + RecordedTotal(1)

\* C23: a step changes the ledger only when it is the ledger write of a
\* purchase commit and changes the stats only when it is the stats write of a
\* purchase commit; commits belong to purchase and capture requests only (never
\* to create-order or to the GET routes); a request that has begun to commit
\* ends with the success response, so a request rejected by the daily limit or
\* by validation has written nothing; the clock writes nothing.
C23_OnlyCommitWrites ==
    [][/\ \A p \in Procs :
            pc'[p] # pc[p] =>
                /\ purchases' # purchases => pc[p] = "save_write"
                /\ stats' # stats => pc[p] = "stats_write"
                /\ Committing(p) => req[p].kind \in {"purchase", "capture"}
                /\ Committing(p) =>
                       \/ pc'[p] \in {"save_write", "stats_read", "stats_write"}
                       \/ resp'[p] = "ok"
                /\ resp'[p] \in {"400:limit", "500:validation"} => ~Committing(p)
       /\ pc' = pc => (purchases' = purchases /\ stats' = stats)]_vars

C23_Witness ==
    /\ purchases # <<>>
    /\ stats = Fold(purchases)
    /\ req[1].kind = "stats"
    /\ resp[1] = "200:stats"

\* C24: the coin amount a capture-order request hands to processPurchase
\* equals the coin amount create-order priced for that order.
C24_AmountRoundTrip ==
    \A p \in Procs :
        (/\ req[p].kind = "capture"
         /\ pc[p] \in {"validate_config", "price_stats", "price_cache", "price_write",
                        "save_read", "save_write", "stats_read", "stats_write"}
         /\ loc[p].capCustomId # 0)
        => loc[p].coin = orders[req[p].paypalOrderId].customId

\* C25: for a raised amount that is negative or zero the computed price equals
\* the start price.
C25_NegativeRaisedIsZero ==
    (PriceCallDone /\ call.arg.insgesamtVerkauft <= 0)
        => call.out = call.arg.coinStartpreis

\* C26: every purchase committed through capture-order carries as totalPrice
\* the amount of the payment order that create-order created for its order id.
C26_CommittedTotalIsOrderAmount ==
    \A i \in DOMAIN purchases :
        purchases[i].route = "capture"
            => purchases[i].totalPrice = orders[purchases[i].paypalOrderId].amount

\* C27: under serialized execution with working storage, a capture-order
\* request that has ended, whose order the gateway captured and whose
\* captureOrder call did not throw, has a purchase recorded for that order.
C27_CapturedIsRecorded ==
    \A p \in Procs :
        (/\ req[p].kind = "capture"
         /\ pc[p] = "done"
         /\ resp[p] # "500:gateway"
         /\ req[p].paypalOrderId \in DOMAIN orders
         /\ orders[req[p].paypalOrderId].captured)
        => \E i \in DOMAIN purchases :
              /\ purchases[i].route = "capture"
              /\ purchases[i].paypalOrderId = req[p].paypalOrderId

\* C28: under serialized execution, storage writes failing or not, a purchase
\* or capture request that has ended with an error response has no record in
\* the ledger, one that has ended with the success response has exactly one,
\* and in both cases the stats are the count and the sums of the ledger.
C28_AllOrNothing ==
    \A p \in Procs :
        (pc[p] = "done" /\ req[p].kind \in {"purchase", "capture"}) =>
            /\ stats = Fold(purchases)
            /\ IF resp[p] = "ok"
               THEN Cardinality(Recorded(p)) = 1
               ELSE Recorded(p) = {}

====
